---- MODULE Spec2Model ----
(***************************************************************************)
(* Model of main.py, the "Git Activity to CSV Converter".                  *)
(*                                                                         *)
(* A text is a sequence of characters (one-character strings).  A run of   *)
(* ordinary characters that none of the program's string operations looks  *)
(* into (a path component, a column title) is written as one symbol.       *)
(* The external world (the command line, list_project.json, the file       *)
(* system, git, the output directory) is a nondeterministic choice.        *)
(* What git answers does not depend, in this model, on the --since,        *)
(* --until and --author flags get_git_log passes: any exit status and any  *)
(* output may follow any command line, so the flags are left out.          *)
(***************************************************************************)
EXTENDS Integers, Sequences, FiniteSets, TLC

VARIABLES
    pc,               \* position of main(): start, validate, read, scan, finish, done
    args,             \* sys.argv as argparse sees it: [today, dates]
    exit_code,        \* process exit status (0 unless parser.error ran)
    start_date,       \* main's start_date  ([set |-> FALSE] is None)
    end_date,         \* main's end_date
    date_mode,        \* main's date_mode ("" before validate_date_args)
    listfile,         \* list_project.json as read: [state, entries]
    projects,         \* main's projects
    project_mapping,  \* main's project_mapping, a function on its keys
    idx,              \* number of completed iterations of the scan loop
    git_stdout,       \* bytes git wrote for the last git log
    all_commits,      \* main's all_commits
    scan_log,         \* history: one [path, outcome, commits] per get_git_log call
    out,              \* lines printed to standard output, in order
    output_file,      \* main's output_file (<<>> before it is computed)
    csv_file          \* the output file on disk: [exists, data]

vars == <<pc, args, exit_code, start_date, end_date, date_mode, listfile, projects,
          project_mapping, idx, git_stdout, all_commits, scan_log, out,
          output_file, csv_file>>

LF == "\n"
CR == "\r"
SP == " "
PIPE == "|"
COMMA == ","
QUOTE == "\""
SLASH == "/"

\* ---------------------------------------------------------------- bounds
MaxDates == 3
MaxEntries == 2
MaxOutLen == 7
MaxRecs == 2

\* ------------------------------------------------------- text primitives
RECURSIVE Concat(_)
\* s[0] + s[1] + ... for a sequence of texts
Concat(ss) == IF ss = <<>> THEN <<>> ELSE Head(ss) \o Concat(Tail(ss))

\* str.find: index of the first c in s, 0 when there is none
IndexOf(s, c) ==
    IF \E i \in 1..Len(s) : s[i] = c
    THEN CHOOSE i \in 1..Len(s) : s[i] = c /\ \A j \in 1..(i - 1) : s[j] # c
    ELSE 0

\* str.replace(a, b) for single characters
ReplaceChar(s, a, b) == [i \in 1..Len(s) |-> IF s[i] = a THEN b ELSE s[i]]

\* characters str.strip() removes
IsSpace(c) == c \in {SP, LF, CR, "\t"}

RECURSIVE LStrip(_)
LStrip(s) == IF s # <<>> /\ IsSpace(Head(s)) THEN LStrip(Tail(s)) ELSE s

RECURSIVE RStrip(_)
RStrip(s) ==
    IF s # <<>> /\ IsSpace(s[Len(s)]) THEN RStrip(SubSeq(s, 1, Len(s) - 1)) ELSE s

\* str.strip()
Strip(s) == LStrip(RStrip(s))

RECURSIVE RStripSlash(_)
\* str.rstrip('/')
RStripSlash(s) ==
    IF s # <<>> /\ s[Len(s)] = SLASH THEN RStripSlash(SubSeq(s, 1, Len(s) - 1)) ELSE s

RECURSIVE SplitNoLimit(_, _, _)
\* a maxsplit-less split (str.split(sep)); the third parameter is ignored
SplitNoLimit(s, sep, max) ==
    LET i == IndexOf(s, sep) IN
    IF i = 0 THEN <<s>>
    ELSE <<SubSeq(s, 1, i - 1)>> \o SplitNoLimit(SubSeq(s, i + 1, Len(s)), sep, max)

RECURSIVE SplitMax(_, _, _)
\* str.split(sep, max): cut at the first max occurrences of sep, left to right
SplitMax(s, sep, max) ==
    LET i == IndexOf(s, sep) IN
    IF i = 0 \/ max = 0 THEN <<s>>
    ELSE <<SubSeq(s, 1, i - 1)>> \o SplitMax(SubSeq(s, i + 1, Len(s)), sep, max - 1)

\* str.split('\n')
SplitLines(s) == SplitMax(s, LF, Len(s))

RECURSIVE UniversalNewlines(_)
\* subprocess.run(..., text=True): stdout is decoded with universal newlines,
\* "\r\n" and a lone "\r" both become "\n"
UniversalNewlines(b) ==
    IF b = <<>> THEN <<>>
    ELSE IF Head(b) = CR
         THEN IF Len(b) >= 2 /\ b[2] = LF
              THEN <<LF>> \o UniversalNewlines(SubSeq(b, 3, Len(b)))
              ELSE <<LF>> \o UniversalNewlines(Tail(b))
         ELSE <<Head(b)>> \o UniversalNewlines(Tail(b))

\* dict.get(k, default) on a function used as a dict
DictGet(d, k, default) == IF k \in DOMAIN d THEN d[k] ELSE default

\* d[k] = v
DictPut(d, k, v) == [x \in DOMAIN d \cup {k} |-> IF x = k THEN v ELSE d[x]]


\* ------------------------------------------------------------ dates
\* A command-line date token "y-m-d": z says whether month and day are written
\* with two digits ("2025-09-01") or not ("2025-9-1"); strptime accepts both.
DateTokens ==
    { [y |-> 2025, m |-> 9, d |-> 1, z |-> TRUE],
      [y |-> 2025, m |-> 9, d |-> 10, z |-> FALSE],
      [y |-> 2025, m |-> 2, d |-> 30, z |-> TRUE],
      [y |-> 2025, m |-> 13, d |-> 1, z |-> TRUE] }

\* the dates datetime.now() may give
Todays == { <<2025, 9, 10>> }

IsLeap(y) == (y % 4 = 0 /\ y % 100 # 0) \/ y % 400 = 0

DaysInMonth(y, m) ==
    IF m = 2 THEN (IF IsLeap(y) THEN 29 ELSE 28)
    ELSE IF m \in {4, 6, 9, 11} THEN 30 ELSE 31

\* whether datetime.strptime(tok, '%Y-%m-%d') succeeds
DateTokenOk(tok) ==
    /\ tok.y \in 1..9999
    /\ tok.m \in 1..12
    /\ tok.d \in 1..DaysInMonth(tok.y, tok.m)

\* parse_date on a token strptime accepts: the datetime <<year, month, day>>
parse_date(tok) == <<tok.y, tok.m, tok.d>>

\* datetime.strftime('%Y-%m-%d'): always zero-padded, so the digits decide it
strftime(dt) == [set |-> TRUE, y |-> dt[1], m |-> dt[2], d |-> dt[3]]

\* None, for start_date and end_date
NoneDate == [set |-> FALSE, y |-> 0, m |-> 0, d |-> 0]

\* datetime's >
DateGT(a, b) ==
    \/ a[1] > b[1]
    \/ a[1] = b[1] /\ a[2] > b[2]
    \/ a[1] = b[1] /\ a[2] = b[2] /\ a[3] > b[3]

\* args.dates once argparse has applied type=parse_date to every token
ParsedDates(a) == [i \in 1..Len(a.dates) |-> parse_date(a.dates[i])]

\* argparse rejects the command line: some positional token fails parse_date
ArgTypeError(a) == \E i \in 1..Len(a.dates) : ~DateTokenOk(a.dates[i])

\* a variant of main's argument checks that forgets the limit of two dates
ArgComboErrorNoLimit(a) == a.today /\ a.dates # <<>>

\* main's checks of the argument combination, each ending in parser.error
ArgComboError(a) == (a.today /\ a.dates # <<>>) \/ Len(a.dates) > 2

\* a variant of validate_date_args that accepts a reversed range as it is
validate_date_args_unchecked(today, dates, now) ==
    IF today
    THEN [raised |-> FALSE, start |-> strftime(now), end |-> strftime(now), mode |-> "today"]
    ELSE IF Len(dates) = 1
    THEN [raised |-> FALSE, start |-> strftime(dates[1]), end |-> strftime(dates[1]),
          mode |-> "specific"]
    ELSE IF Len(dates) = 2
    THEN [raised |-> FALSE, start |-> strftime(dates[1]), end |-> strftime(dates[2]),
          mode |-> "range"]
    ELSE [raised |-> FALSE, start |-> NoneDate, end |-> NoneDate, mode |-> "all"]

\* validate_date_args: (start_date, end_date, date_mode), or ValueError raised
validate_date_args(today, dates, now) ==
    IF today
    THEN [raised |-> FALSE, start |-> strftime(now), end |-> strftime(now), mode |-> "today"]
    ELSE IF Len(dates) = 1
    THEN [raised |-> FALSE, start |-> strftime(dates[1]), end |-> strftime(dates[1]),
          mode |-> "specific"]
    ELSE IF Len(dates) = 2
    THEN IF DateGT(dates[1], dates[2])
         THEN [raised |-> TRUE, start |-> NoneDate, end |-> NoneDate, mode |-> ""]
         ELSE [raised |-> FALSE, start |-> strftime(dates[1]), end |-> strftime(dates[2]),
               mode |-> "range"]
    ELSE [raised |-> FALSE, start |-> NoneDate, end |-> NoneDate, mode |-> "all"]

\* ------------------------------------------------------- printed lines
\* one printed line: its fixed text and the value formatted into it
Msg(text, arg) == [text |-> text, arg |-> arg]

Printed(text) == \E i \in 1..Len(out) : out[i].text = text

CountPrinted(text) == Cardinality({i \in 1..Len(out) : out[i].text = text})

\* --------------------------------------------------- list_project.json
\* One element of the JSON array.  is_obj is FALSE for an element project.get
\* or .rstrip fails on (not an object, or its "path" is not a string).
ListEntries ==
    { [is_obj |-> TRUE, path |-> <<"a">>, has_name |-> TRUE, name |-> <<"X">>],
      [is_obj |-> TRUE, path |-> <<"a">>, has_name |-> TRUE, name |-> <<"Y">>],
      [is_obj |-> TRUE, path |-> <<"a", SLASH>>, has_name |-> FALSE, name |-> <<>>],
      [is_obj |-> TRUE, path |-> <<"b">>, has_name |-> TRUE, name |-> <<"Y">>],
      [is_obj |-> TRUE, path |-> <<"c">>, has_name |-> TRUE, name |-> <<"X">>],
      [is_obj |-> TRUE, path |-> <<>>, has_name |-> TRUE, name |-> <<"X">>],
      [is_obj |-> TRUE, path |-> <<SLASH>>, has_name |-> TRUE, name |-> <<"Y">>],
      [is_obj |-> FALSE, path |-> <<>>, has_name |-> FALSE, name |-> <<>>] }

EntryLists == UNION { [1..n -> ListEntries] : n \in 0..MaxEntries }

\* what open() and json.load find
ListFiles ==
    { [state |-> "missing", entries |-> <<>>], [state |-> "invalid_json", entries |-> <<>>] }
    \cup { [state |-> "ok", entries |-> es] : es \in EntryLists }

\* the file system: os.path.exists of a path without trailing slashes
ExistingPaths == { <<"a">>, <<"b">> }

PathExists(p) == p \in ExistingPaths

EmptyDict == [x \in {} |-> <<>>]

\* a variant of the append that keeps each path once
AppendProjectOnce(ps, p) == IF \E i \in 1..Len(ps) : ps[i] = p THEN ps ELSE Append(ps, p)

\* projects.append(project_path)
AppendProject(ps, p) == Append(ps, p)

\* a variant of the warning test that also warns about an empty path
WarnsMissingAlways(p) == TRUE

\* the elif of read_project_list: a rejected path is reported when it is not empty
WarnsMissing(p) == p # <<>>

RECURSIVE ReadEntries(_, _, _, _, _)
\* The for loop of read_project_list from element i on; an element that raises
\* ends in the except clause, which returns [], {}.
ReadEntries(file_path, es, i, acc, msgs) ==
    IF i > Len(es) THEN [projects |-> acc.projects, mapping |-> acc.mapping, msgs |-> msgs]
    ELSE IF ~es[i].is_obj
    THEN [projects |-> <<>>, mapping |-> EmptyDict,
          msgs |-> Append(msgs, Msg("Error reading", file_path))]
    ELSE LET project_path == RStripSlash(es[i].path)
             name == IF es[i].has_name THEN es[i].name ELSE <<>>
         IN IF project_path # <<>> /\ PathExists(project_path)
            THEN ReadEntries(file_path, es, i + 1,
                             [projects |-> AppendProject(acc.projects, project_path),
                              mapping |-> DictPut(acc.mapping, project_path, name)],
                             msgs)
            ELSE IF WarnsMissing(project_path)
            THEN ReadEntries(file_path, es, i + 1, acc,
                             Append(msgs, Msg("Warning: Project path does not exist",
                                              project_path)))
            ELSE ReadEntries(file_path, es, i + 1, acc, msgs)

\* read_project_list: (projects, project_mapping) and the lines it prints
read_project_list(file_path, file) ==
    IF file.state = "missing"
    THEN [projects |-> <<>>, mapping |-> EmptyDict, msgs |-> <<Msg("Error: not found", file_path)>>]
    ELSE IF file.state = "invalid_json"
    THEN [projects |-> <<>>, mapping |-> EmptyDict, msgs |-> <<Msg("Error: Invalid JSON", file_path)>>]
    ELSE ReadEntries(file_path, file.entries, 1,
                     [projects |-> <<>>, mapping |-> EmptyDict], <<>>)

\* ------------------------------------------------------------- git log
\* a commit dictionary as get_git_log builds it
Commit(commit_hash, author_name, author_email, date, application_type, message, repo_path) ==
    [ date |-> date,
      author_name |-> author_name,
      author_email |-> author_email,
      Application_type |-> application_type,
      Description_Technical |-> ReplaceChar(ReplaceChar(message, LF, SP), CR, SP),
      commit_hash |-> commit_hash,
      project_path |-> repo_path ]

RECURSIVE ParseLines(_, _, _)
\* the for loop over the lines of result.stdout
ParseLines(lines, application_type, repo_path) ==
    IF lines = <<>> THEN <<>>
    ELSE LET line == Head(lines)
             parts == SplitMax(line, PIPE, 4)
             rest == ParseLines(Tail(lines), application_type, repo_path)
         IN IF line # <<>> /\ Len(parts) = 5
            THEN <<Commit(parts[1], parts[2], parts[3], parts[4], application_type,
                          parts[5], repo_path)>> \o rest
            ELSE rest

\* the commits get_git_log builds from the bytes of a successful git log
ParseGitOutput(raw, mapping, repo_path) ==
    ParseLines(SplitLines(Strip(UniversalNewlines(raw))),
               DictGet(mapping, repo_path, <<>>), repo_path)

\* What the two subprocess.run calls of one get_git_log do:
\*   not_repo           git rev-parse exits non-zero
\*   repo_check_raises  subprocess.run raises in is_git_repository
\*   log_raises         subprocess.run raises for git log
\*   log_nonzero        git log exits non-zero
\*   log_ok             git log exits 0
GitLine1 == <<"h", PIPE, "n", PIPE, "e", PIPE, "d", PIPE, "s", PIPE, "t">>

MainStdouts == { <<>>, GitLine1 \o <<LF>> \o <<"h", PIPE, "n">> }

GitOutcomes ==
    { [kind |-> k, stdout |-> <<>>] : k \in {"not_repo", "repo_check_raises", "log_raises"} }
    \cup { [kind |-> "log_nonzero", stdout |-> GitLine1] }
    \cup { [kind |-> "log_ok", stdout |-> o] : o \in MainStdouts }

\* is_git_repository: an exception counts as "not a repository"
is_git_repository(outcome) == outcome.kind \notin {"not_repo", "repo_check_raises"}

\* a variant of the exit-status test that parses the output of a failed git log too
LogSucceededAnyExit(outcome) == outcome.kind \in {"log_ok", "log_nonzero"}

\* result.returncode == 0
LogSucceeded(outcome) == outcome.kind = "log_ok"

\* get_git_log: the commits it returns and the lines it prints
get_git_log(repo_path, mapping, outcome) ==
    IF ~is_git_repository(outcome)
    THEN [commits |-> <<>>, msgs |-> <<Msg("Warning: not a git repository", repo_path)>>]
    ELSE IF outcome.kind = "log_raises"
    THEN [commits |-> <<>>, msgs |-> <<Msg("Exception while processing", repo_path)>>]
    ELSE IF LogSucceeded(outcome)
    THEN [commits |-> ParseGitOutput(outcome.stdout, mapping, repo_path), msgs |-> <<>>]
    ELSE [commits |-> <<>>, msgs |-> <<Msg("Error getting git log from", repo_path)>>]

\* ----------------------------------------------------------------- CSV
\* fieldnames of save_to_csv
fieldnames == << "commit_hash", "author_name", "author_email", "date",
                 "Application_type", "Description_Technical", "project_path" >>

\* csv's QUOTE_MINIMAL: a field is quoted when it holds the delimiter, the quote
\* character or a character of the line terminator
NeedsQuote(f) == \E i \in 1..Len(f) : f[i] \in {COMMA, QUOTE, CR, LF}

RECURSIVE DoubleQuotes(_)
DoubleQuotes(f) ==
    IF f = <<>> THEN <<>>
    ELSE (IF Head(f) = QUOTE THEN <<QUOTE, QUOTE>> ELSE <<Head(f)>>) \o DoubleQuotes(Tail(f))

\* a variant of the quoting that does not double an embedded quote character
QuoteFieldNoDoubling(f) == IF NeedsQuote(f) THEN <<QUOTE>> \o f \o <<QUOTE>> ELSE f

\* one field as csv.writer writes it (excel dialect)
QuoteField(f) == IF NeedsQuote(f) THEN <<QUOTE>> \o DoubleQuotes(f) \o <<QUOTE>> ELSE f

RECURSIVE JoinFields(_)
JoinFields(fs) ==
    IF fs = <<>> THEN <<>>
    ELSE IF Len(fs) = 1 THEN QuoteField(fs[1])
    ELSE QuoteField(fs[1]) \o <<COMMA>> \o JoinFields(Tail(fs))

\* writer.writerow on a list of fields: the line and its "\r\n"
WriteRow(fs) == JoinFields(fs) \o <<CR, LF>>

\* writer.writeheader(): each column title is one symbol
HeaderRow == WriteRow([i \in 1..Len(fieldnames) |-> <<fieldnames[i]>>])

\* DictWriter.writerow: the dictionary's values in fieldnames order
CommitRow(commit) == WriteRow([i \in 1..Len(fieldnames) |-> commit[fieldnames[i]]])

\* the file after the header and the first k commits were written
CsvText(commits, k) == HeaderRow \o Concat([i \in 1..k |-> CommitRow(commits[i])])

NoFile == [exists |-> FALSE, data |-> <<>>]

\* what the output directory does to save_to_csv:
\*   ok           everything is written
\*   open_fails   open() raises, no file is created
\*   write_fails  a write raises after k rows, the partial file stays
IoOutcomes(commits) ==
    { [kind |-> "ok", k |-> Len(commits)], [kind |-> "open_fails", k |-> 0] }
    \cup { [kind |-> "write_fails", k |-> k] : k \in 0..(Len(commits) - 1) }

\* save_to_csv: the file it leaves and the lines it prints (it never raises)
save_to_csv(commits, io) ==
    IF io.kind = "ok"
    THEN [file |-> [exists |-> TRUE, data |-> CsvText(commits, Len(commits))],
          msgs |-> <<Msg("Successfully saved", <<Len(commits)>>)>>]
    ELSE IF io.kind = "open_fails"
    THEN [file |-> NoFile, msgs |-> <<Msg("Error saving to CSV", <<>>)>>]
    ELSE [file |-> [exists |-> TRUE, data |-> CsvText(commits, io.k)],
          msgs |-> <<Msg("Error saving to CSV", <<>>)>>]

\* ---------------------------------------------------------------- main
ArgLists == UNION { [1..n -> DateTokens] : n \in 0..MaxDates }

Unread == [state |-> "unread", entries |-> <<>>]

NoName == [set |-> FALSE, mode |-> "", start |-> NoneDate, end |-> NoneDate]

\* main's output_file: git_log[_<suffix>]_<timestamp>.csv, the suffix from the mode
OutputFileName(mode, start, end) ==
    IF mode = "today" THEN [set |-> TRUE, mode |-> mode, start |-> NoneDate, end |-> NoneDate]
    ELSE IF mode = "specific" THEN [set |-> TRUE, mode |-> mode, start |-> start, end |-> NoneDate]
    ELSE IF mode = "range" THEN [set |-> TRUE, mode |-> mode, start |-> start, end |-> end]
    ELSE [set |-> TRUE, mode |-> mode, start |-> NoneDate, end |-> NoneDate]

\* a variant of main's test before save_to_csv that saves an empty list too
ShouldSaveAlways(commits) == TRUE

\* main's "if all_commits:"
ShouldSave(commits) == commits # <<>>

\* the state all runs share before main() looks at anything
Blank ==
    /\ exit_code = 0
    /\ start_date = NoneDate
    /\ end_date = NoneDate
    /\ date_mode = ""
    /\ listfile = Unread
    /\ projects = <<>>
    /\ project_mapping = EmptyDict
    /\ idx = 0
    /\ git_stdout = <<>>
    /\ all_commits = <<>>
    /\ scan_log = <<>>
    /\ out = <<>>
    /\ output_file = NoName
    /\ csv_file = NoFile

Init ==
    /\ pc = "start"
    /\ args \in [today : BOOLEAN, dates : ArgLists]
    /\ Blank

\* parser.parse_args() and the two checks after it; parser.error exits with status 2
ParseArgs ==
    /\ pc = "start"
    /\ \/ /\ ArgTypeError(args)
          /\ pc' = "done"
          /\ exit_code' = 2
          /\ out' = out
       \/ /\ ~ArgTypeError(args)
          /\ ArgComboError(args)
          /\ pc' = "done"
          /\ exit_code' = 2
          /\ out' = out
       \/ /\ ~ArgTypeError(args)
          /\ ~ArgComboError(args)
          /\ pc' = "validate"
          /\ exit_code' = exit_code
          /\ out' = Append(out, Msg("Starting Git Activity to CSV conversion...", <<>>))
    /\ UNCHANGED <<args, start_date, end_date, date_mode, listfile, projects,
                   project_mapping, idx, git_stdout, all_commits, scan_log,
                   output_file, csv_file>>

\* validate_date_args under main's try, and the date filter line main prints
ValidateDates ==
    /\ pc = "validate"
    /\ \E now \in Todays :
         LET r == validate_date_args(args.today, ParsedDates(args), now) IN
         \/ /\ r.raised
            /\ pc' = "done"
            /\ out' = Append(out, Msg("Error: Start date cannot be after end date", <<>>))
            /\ UNCHANGED <<start_date, end_date, date_mode>>
         \/ /\ ~r.raised
            /\ pc' = "read"
            /\ start_date' = r.start
            /\ end_date' = r.end
            /\ date_mode' = r.mode
            /\ out' = Append(out, Msg("Date filter", <<r.mode>>))
    /\ UNCHANGED <<args, exit_code, listfile, projects, project_mapping, idx,
                   git_stdout, all_commits, scan_log, output_file, csv_file>>

\* read_project_list and main's "if not projects"
ReadProjects ==
    /\ pc = "read"
    /\ \E f \in ListFiles :
         LET r == read_project_list(<<"list_project.json">>, f) IN
         /\ listfile' = f
         /\ projects' = r.projects
         /\ project_mapping' = r.mapping
         /\ \/ /\ r.projects = <<>>
               /\ pc' = "done"
               /\ out' = out \o r.msgs
                            \o << Msg("Found projects to process", <<0>>),
                                  Msg("No valid projects found. Exiting.", <<>>) >>
            \/ /\ r.projects # <<>>
               /\ pc' = "scan"
               /\ out' = out \o r.msgs
                            \o << Msg("Found projects to process", <<Len(r.projects)>>) >>
    /\ UNCHANGED <<args, exit_code, start_date, end_date, date_mode, idx, git_stdout,
                   all_commits, scan_log, output_file, csv_file>>

\* one iteration of main's for loop over projects
ScanProject ==
    /\ pc = "scan"
    /\ idx < Len(projects)
    /\ \E o \in GitOutcomes :
         LET project_path == projects[idx + 1]
             r == get_git_log(project_path, project_mapping, o)
         IN /\ all_commits' = all_commits \o r.commits
            /\ scan_log' = Append(scan_log, [path |-> project_path, outcome |-> o.kind,
                                             commits |-> r.commits])
            /\ git_stdout' = IF o.kind \in {"log_ok", "log_nonzero"} THEN o.stdout
                             ELSE git_stdout
            /\ out' = out \o <<Msg("Processing", project_path)>> \o r.msgs
                          \o <<Msg("Found commits", <<Len(r.commits)>>)>>
    /\ idx' = idx + 1
    /\ pc' = IF idx + 1 = Len(projects) THEN "finish" ELSE "scan"
    /\ UNCHANGED <<args, exit_code, start_date, end_date, date_mode, listfile, projects,
                   project_mapping, output_file, csv_file>>

\* the end of main: the file name, save_to_csv and the closing lines
Finish ==
    /\ pc = "finish"
    /\ output_file' = OutputFileName(date_mode, start_date, end_date)
    /\ \/ /\ ShouldSave(all_commits)
          /\ \E io \in IoOutcomes(all_commits) :
               LET r == save_to_csv(all_commits, io) IN
               /\ csv_file' = r.file
               /\ out' = out \o r.msgs
                             \o << Msg("Total commits processed", <<Len(all_commits)>>),
                                   Msg("Output file", <<>>) >>
       \/ /\ ~ShouldSave(all_commits)
          /\ csv_file' = csv_file
          /\ out' = Append(out, Msg("No commits found matching the criteria.", <<>>))
    /\ pc' = "done"
    /\ UNCHANGED <<args, exit_code, start_date, end_date, date_mode, listfile, projects,
                   project_mapping, idx, git_stdout, all_commits, scan_log>>

Next == ParseArgs \/ ValidateDates \/ ReadProjects \/ ScanProject \/ Finish

Spec == Init /\ [][Next]_vars

\* ------------------------------------------- get_git_log's parsing alone
\* the characters git's output is drawn from
OutAlphabet == {"h", PIPE, LF, CR}

RawOutputs == UNION { [1..n -> OutAlphabet] : n \in 0..MaxOutLen }

InitParse ==
    /\ pc = "parse"
    /\ git_stdout \in RawOutputs
    /\ projects = << <<"a">> >>
    /\ project_mapping = DictPut(EmptyDict, <<"a">>, <<"X">>)
    /\ args = [today |-> FALSE, dates |-> <<>>]
    /\ exit_code = 0
    /\ start_date = NoneDate
    /\ end_date = NoneDate
    /\ date_mode = "all"
    /\ listfile = Unread
    /\ idx = 0
    /\ all_commits = <<>>
    /\ scan_log = <<>>
    /\ out = <<>>
    /\ output_file = NoName
    /\ csv_file = NoFile

\* get_git_log on a repository whose git log exits 0 with the bytes of git_stdout
ParseOnly ==
    /\ pc = "parse"
    /\ LET r == get_git_log(projects[1], project_mapping,
                            [kind |-> "log_ok", stdout |-> git_stdout])
       IN /\ all_commits' = r.commits
          /\ scan_log' = Append(scan_log, [path |-> projects[1], outcome |-> "log_ok",
                                           commits |-> r.commits])
          /\ out' = out \o r.msgs
    /\ idx' = idx + 1
    /\ pc' = "done"
    /\ UNCHANGED <<args, exit_code, start_date, end_date, date_mode, listfile, projects,
                   project_mapping, git_stdout, output_file, csv_file>>

SpecParse == InitParse /\ [][ParseOnly]_vars

\* ------------------------------------------------------ save_to_csv alone
CsvAuthors == { <<"n">>, <<QUOTE, "n", COMMA>> }

CsvTypes == { <<>>, <<"X", LF>>, <<CR, "X">> }

CsvMessages == { <<"m">>, <<COMMA, QUOTE>>, <<>> }

CsvCommits ==
    { [ date |-> <<"d">>, author_name |-> a, author_email |-> <<"e">>,
        Application_type |-> t, Description_Technical |-> m,
        commit_hash |-> <<"h">>, project_path |-> <<"a">> ]
      : a \in CsvAuthors, t \in CsvTypes, m \in CsvMessages }

CsvInputs == UNION { [1..n -> CsvCommits] : n \in 0..MaxRecs }

InitCsv ==
    /\ pc = "finish"
    /\ all_commits \in CsvInputs
    /\ projects = << <<"a">> >>
    /\ project_mapping = DictPut(EmptyDict, <<"a">>, <<"X">>)
    /\ args = [today |-> FALSE, dates |-> <<>>]
    /\ exit_code = 0
    /\ start_date = NoneDate
    /\ end_date = NoneDate
    /\ date_mode = "all"
    /\ listfile = Unread
    /\ idx = 1
    /\ git_stdout = <<>>
    /\ scan_log = <<>>
    /\ out = <<>>
    /\ output_file = NoName
    /\ csv_file = NoFile

SpecCsv == InitCsv /\ [][Finish]_vars

\* ------------------------------------------------------------ properties
\* the paths get_git_log was called with, in call order
ScannedPaths == [i \in 1..Len(scan_log) |-> scan_log[i].path]

\* the commits of all get_git_log calls so far, in call order
ScannedCommits == Concat([i \in 1..Len(scan_log) |-> scan_log[i].commits])

WellFormed(es) == \A i \in 1..Len(es) : es[i].is_obj

\* an entry's path with its trailing slashes removed
Stripped(e) == RStripSlash(e.path)

\* the entry names a path that is not empty once stripped, and that exists
Accepted(e) == e.is_obj /\ Stripped(e) # <<>> /\ Stripped(e) \in ExistingPaths

\* the entry's path as written exists: the root, or an existing directory with
\* or without trailing slashes
ListedPathExists(e) ==
    e.is_obj /\ e.path # <<>> /\ (Stripped(e) = <<>> \/ Stripped(e) \in ExistingPaths)

AcceptedEntries(es) == SelectSeq(es, Accepted)

PathsOf(es) == [i \in 1..Len(es) |-> Stripped(es[i])]

LoopOver == pc \in {"finish", "done"} /\ listfile.state = "ok"

FailureKinds == {"not_repo", "repo_check_raises", "log_raises", "log_nonzero"}

\* C1 as stated: for every list file that parses, once the run is past the scan
\* loop the scanner has been called exactly once per listed entry whose path
\* exists, in listed order.
C1_AsStated ==
    LoopOver => ScannedPaths = PathsOf(SelectSeq(listfile.entries, ListedPathExists))

\* C1 amended: for every list file that is an array of objects with string
\* paths, the scanner is called exactly once per listed entry whose path, with
\* trailing slashes removed, is not empty and exists, in listed order, duplicates
\* included; inside the loop the calls made so far are the first idx of them.
C1_ScanOrder ==
    (listfile.state = "ok" /\ WellFormed(listfile.entries)) =>
        LET want == PathsOf(AcceptedEntries(listfile.entries)) IN
        /\ Len(scan_log) = idx
        /\ idx <= Len(want)
        /\ ScannedPaths = SubSeq(want, 1, idx)
        /\ pc \in {"finish", "done"} => idx = Len(want)

\* a finished run over a list that names the same path twice, whose first scan
\* found no commit
C1_Witness ==
    /\ pc = "done"
    /\ Len(listfile.entries) = 2
    /\ WellFormed(listfile.entries)
    /\ Len(scan_log) = 2
    /\ scan_log[1].path = scan_log[2].path
    /\ scan_log[1].commits = <<>>

UsageError(a) ==
    \/ a.today /\ Len(a.dates) >= 1
    \/ Len(a.dates) > 2
    \/ \E i \in 1..Len(a.dates) : ~DateTokenOk(a.dates[i])

\* C2: a run whose arguments are a usage error is either not yet past argument
\* parsing or has ended with exit status 2, and it has not read the project
\* list, scanned a repository or created an output file.
C2_UsageErrorExits ==
    UsageError(args) =>
        /\ pc = "start" \/ (pc = "done" /\ exit_code # 0)
        /\ listfile = Unread
        /\ scan_log = <<>>
        /\ ~csv_file.exists

\* a run given --today and one well-formed date has ended with status 2
C2_Witness ==
    /\ pc = "done"
    /\ exit_code = 2
    /\ args.today
    /\ Len(args.dates) = 1
    /\ DateTokenOk(args.dates[1])

SameDay(str, tok) == str.set /\ str.y = tok.y /\ str.m = tok.m /\ str.d = tok.d

\* date strings in YYYY-MM-DD form compare as their digits do
DateStrLE(a, b) ==
    \/ a.y < b.y
    \/ a.y = b.y /\ a.m < b.m
    \/ a.y = b.y /\ a.m = b.m /\ a.d <= b.d

\* two well-formed dates, the first later than the second
Reversed(a) ==
    /\ ~a.today
    /\ Len(a.dates) = 2
    /\ DateTokenOk(a.dates[1])
    /\ DateTokenOk(a.dates[2])
    /\ ~DateStrLE(a.dates[1], a.dates[2])

\* C3: in mode 'range' the start is not after the end and (start, end) are the
\* two dates as given; given a first date later than the second, no mode is
\* resolved, the run ends after printing the validation error, and it reads no
\* project list, scans nothing and writes no file.
C3_RangeNotSwapped ==
    /\ date_mode = "range" =>
          /\ Len(args.dates) = 2
          /\ DateStrLE(start_date, end_date)
          /\ SameDay(start_date, args.dates[1])
          /\ SameDay(end_date, args.dates[2])
    /\ Reversed(args) =>
          /\ pc \in {"start", "validate", "done"}
          /\ date_mode = ""
          /\ listfile = Unread
          /\ scan_log = <<>>
          /\ ~csv_file.exists
          /\ pc = "done" => Printed("Error: Start date cannot be after end date")

\* a run given a later date first has ended on the validation error
C3_Witness ==
    /\ pc = "done"
    /\ Reversed(args)
    /\ Printed("Error: Start date cannot be after end date")

SaveCalled == Printed("Successfully saved") \/ Printed("Error saving to CSV")

\* C4: when the scans of all projects together gave no commit, the finished run
\* has not called save_to_csv, has created no file, has printed the "no commits
\* found" line and exits 0; and save_to_csv is called, and a file exists, only
\* with a non-empty list of commits.
C4_NoCommitsNoFile ==
    /\ (pc = "done" /\ scan_log # <<>> /\ ScannedCommits = <<>>) =>
          /\ ~SaveCalled
          /\ ~csv_file.exists
          /\ Printed("No commits found matching the criteria.")
          /\ exit_code = 0
    /\ (SaveCalled \/ csv_file.exists) => all_commits # <<>>

\* two scans, both without a commit, and the run has finished
C4_Witness ==
    /\ pc = "done"
    /\ Len(scan_log) = 2
    /\ ScannedCommits = <<>>
    /\ scan_log[1].outcome = "log_ok"

\* C5: a scan that failed (not a repository, an exception, a non-zero git log)
\* contributed no commit; the accumulated list is exactly the commits of the
\* scans so far, in order; and the loop goes on: a run past the loop has made one
\* scan per project.
C5_FailureIsLocal ==
    /\ \A i \in 1..Len(scan_log) :
          scan_log[i].outcome \in FailureKinds => scan_log[i].commits = <<>>
    /\ all_commits = ScannedCommits
    /\ pc = "scan" => Len(scan_log) = idx /\ idx < Len(projects)
    /\ (pc \in {"finish", "done"} /\ projects # <<>>) => Len(scan_log) = Len(projects)

\* a failed scan after a scan that found a commit: the commit is still there
C5_Witness ==
    /\ pc = "done"
    /\ Len(scan_log) = 2
    /\ scan_log[1].commits # <<>>
    /\ scan_log[2].outcome \in FailureKinds
    /\ all_commits = scan_log[1].commits

\* C6 as stated: after a failed CSV write the run has printed neither the total
\* count nor the output file line.
C6_AsStated ==
    (pc = "done" /\ Printed("Error saving to CSV")) =>
        /\ ~Printed("Total commits processed")
        /\ ~Printed("Output file")

EntryName(e) == IF e.has_name THEN e.name ELSE <<>>

\* C7 as stated: every commit of the i-th scan carries the name of the i-th
\* accepted entry of the list (the empty text when it has none).
C7_AsStated ==
    (listfile.state = "ok" /\ WellFormed(listfile.entries)) =>
        \A i \in 1..Len(scan_log) :
            \A j \in 1..Len(scan_log[i].commits) :
                scan_log[i].commits[j].Application_type
                    = EntryName(AcceptedEntries(listfile.entries)[i])

\* the number of listed entries that satisfy a test
CountEntries(es, Test(_)) == Len(SelectSeq(es, Test))

MissingPath(e) == e.is_obj /\ Stripped(e) # <<>> /\ Stripped(e) \notin ExistingPaths

\* the entry's path is not empty and exists, as C10 words acceptance
ListedAccepted(e) == e.is_obj /\ e.path # <<>> /\ ListedPathExists(e)

NotListedAccepted(e) == ~ListedAccepted(e)

\* C10 as stated: when the file parses, projects are the entries with a
\* non-empty existing path in file order, and every other entry got a warning.
C10_AsStated ==
    listfile.state = "ok" =>
        /\ projects = PathsOf(SelectSeq(listfile.entries, ListedAccepted))
        /\ CountPrinted("Warning: Project path does not exist")
             = CountEntries(listfile.entries, NotListedAccepted)

\* C10 amended: when the file parses to an array of objects with string paths,
\* projects are, in file order, the slash-stripped paths of the entries whose
\* stripped path is not empty and exists; one warning is printed per entry whose
\* stripped path is not empty and does not exist, and none for an entry whose
\* stripped path is empty.
C10_AcceptedInOrder ==
    (listfile.state = "ok" /\ WellFormed(listfile.entries)) =>
        /\ projects = PathsOf(AcceptedEntries(listfile.entries))
        /\ CountPrinted("Warning: Project path does not exist")
             = CountEntries(listfile.entries, MissingPath)

\* a list with an empty path and a missing path has been read: one warning
C10_Witness ==
    /\ listfile.state = "ok"
    /\ Len(listfile.entries) = 2
    /\ listfile.entries[1].is_obj /\ listfile.entries[1].path = <<>>
    /\ MissingPath(listfile.entries[2])
    /\ CountPrinted("Warning: Project path does not exist") = 1

CountChar(s, c) == Cardinality({i \in 1..Len(s) : s[i] = c})

\* the lines the parser walks over: git's output as text, stripped, cut at "\n"
OutputLines == SplitLines(Strip(UniversalNewlines(git_stdout)))

HasFourPipes(line) == CountChar(line, PIPE) >= 4

\* C8: the parsed output has one commit per line with at least four pipes, in
\* line order; its hash, author name, author email and date hold no pipe, and
\* joined by pipes with the message they spell the line, so the message is all
\* that follows the fourth pipe.  Lines with fewer pipes leave no commit and no
\* printed error.
C8_SplitAtFirstFourPipes ==
    pc = "done" =>
        LET good == SelectSeq(OutputLines, HasFourPipes) IN
        /\ Len(all_commits) = Len(good)
        /\ out = <<>>
        /\ \A k \in 1..Len(good) :
              LET c == all_commits[k] IN
              /\ CountChar(c.commit_hash, PIPE) = 0
              /\ CountChar(c.author_name, PIPE) = 0
              /\ CountChar(c.author_email, PIPE) = 0
              /\ CountChar(c.date, PIPE) = 0
              /\ c.commit_hash \o <<PIPE>> \o c.author_name \o <<PIPE>> \o c.author_email
                   \o <<PIPE>> \o c.date \o <<PIPE>> \o c.Description_Technical = good[k]

\* a line with a pipe in its message was parsed, beside a line with too few pipes
C8_Witness ==
    /\ pc = "done"
    /\ Len(all_commits) = 1
    /\ CountChar(all_commits[1].Description_Technical, PIPE) >= 1
    /\ \E i \in 1..Len(OutputLines) : OutputLines[i] # <<>> /\ ~HasFourPipes(OutputLines[i])

\* csv.reader (excel dialect) before the first character of a file
ReaderStart == [st |-> "start_record", field |-> <<>>, row |-> <<>>, rows |-> <<>>]

\* csv.reader on one more character c of a file opened with newline='': st is
\* the reader's state, field and row what it has collected, rows the finished
\* rows.  A "\r" ends a line and the "\n" right after it belongs to that line
\* end (state after_cr).
ReadStep(r, c) ==
    LET st == IF r.st = "after_cr" THEN "start_record" ELSE r.st IN
    IF r.st = "after_cr" /\ c = LF THEN [r EXCEPT !.st = "start_record"]
    ELSE IF st = "in_quoted"
    THEN IF c = QUOTE THEN [r EXCEPT !.st = "quote_in_quoted"]
         ELSE [r EXCEPT !.field = Append(@, c)]
    ELSE IF c \in {CR, LF}
    THEN [st |-> IF c = CR THEN "after_cr" ELSE "start_record",
          field |-> <<>>, row |-> <<>>,
          rows |-> Append(r.rows, IF st = "start_record" THEN <<>>
                                  ELSE Append(r.row, r.field))]
    ELSE IF c = COMMA
    THEN [st |-> "start_field", field |-> <<>>, row |-> Append(r.row, r.field),
          rows |-> r.rows]
    ELSE IF c = QUOTE /\ st \in {"start_record", "start_field"}
    THEN [r EXCEPT !.st = "in_quoted"]
    ELSE IF c = QUOTE /\ st = "quote_in_quoted"
    THEN [r EXCEPT !.st = "in_quoted", !.field = Append(@, c)]
    ELSE [r EXCEPT !.st = "in_field", !.field = Append(@, c)]

RECURSIVE ReadRange(_, _, _, _)
\* the reader run over data[lo..hi] from state r, the range cut in halves
ReadRange(data, lo, hi, r) ==
    IF lo > hi THEN r
    ELSE IF lo = hi THEN ReadStep(r, data[lo])
    ELSE LET mid == (lo + hi) \div 2
             left == ReadRange(data, lo, mid, r)
         IN \* the left half is worked out before the right half starts
            IF left.st = "" THEN left ELSE ReadRange(data, mid + 1, hi, left)

\* the rows csv.reader gives for a file: a last line without a line end counts
ReadCsv(data) ==
    LET r == ReadRange(data, 1, Len(data), ReaderStart) IN
    IF r.st \in {"start_record", "after_cr"} THEN r.rows
    ELSE Append(r.rows, Append(r.row, r.field))

\* C9: after a successful save_to_csv, reading the file back gives the header
\* row commit_hash, author_name, author_email, date, Application_type,
\* Description_Technical, project_path and then one row per commit, in input
\* order, whose seven values are the commit's values in that column order.
C9_RoundTrip ==
    (pc = "done" /\ Printed("Successfully saved")) =>
        /\ csv_file.exists
        /\ ReadCsv(csv_file.data)
             = << << <<"commit_hash">>, <<"author_name">>, <<"author_email">>, <<"date">>,
                     <<"Application_type">>, <<"Description_Technical">>,
                     <<"project_path">> >> >>
               \o [i \in 1..Len(all_commits) |->
                     << all_commits[i].commit_hash, all_commits[i].author_name,
                        all_commits[i].author_email, all_commits[i].date,
                        all_commits[i].Application_type,
                        all_commits[i].Description_Technical,
                        all_commits[i].project_path >>]

\* two commits were saved, the first with a quote and a comma in a value, the
\* second with a line break in a value
C9_Witness ==
    /\ pc = "done"
    /\ Printed("Successfully saved")
    /\ Len(all_commits) = 2
    /\ all_commits[1].author_name = <<QUOTE, "n", COMMA>>
    /\ all_commits[2].Application_type = <<"X", LF>>
    /\ all_commits[1] # all_commits[2]
====
